---- MODULE Spec2Model ----
(***************************************************************************)
(* Model of APIcallsmaspool_instantlyGS.py: the per-item account-link      *)
(* workflow (process_single_account) with the phone-verification bypass    *)
(* (handle_phone_verification, get_smspool_sms), and the batch coordinator *)
(* (main).  Every driver / network call is an input of the environment:    *)
(* it succeeds, raises one of the three exception classes the retry loops  *)
(* list (StaleElementReference, Timeout, NoSuchElement: "listed"), or      *)
(* raises any other exception class ("other").                             *)
(***************************************************************************)
EXTENDS Integers, Sequences, FiniteSets, TLC

VARIABLES
    \* ---- process_single_account ----
    pc,         \* position: "idle" | "create" | "run" | "bypass" | "sms" | "handler" | "finally" | "returned" | "escaped"
    step,       \* index into Steps of the step being executed
    made,       \* attempts made so far at the current step
    last,       \* outcome of the latest attempt at the current step
    driver,     \* "none" | "live": the local variable driver
    exc,        \* message of the exception in flight (str(e)), "" when none
    reports,    \* calls of update_status_in_sheet, in order: <<status, step index>>
    shots,      \* calls of save_screenshot, in order: the step tag
    quits,      \* number of calls of driver.quit()
    quitFails,  \* number of those calls that raised
    ret,        \* "none" | "True" | "False": the value returned
    failStep,   \* step index at which control left the normal path, 0 when none
    failClass,  \* "none" | "listed" | "other" | "notfound": what made it leave
    reached,    \* set of step indices that have been entered
    succeeded,  \* indices of the mandatory steps and gates whose statements all completed, in order
    \* ---- handle_phone_verification ----
    enabled,    \* ENABLE_PHONE_VERIFICATION
    pv,         \* stage of the bypass
    sel,        \* index of the selector being tried in the current selector loop
    numberData, \* response of get_smspool_number, NoData when None
    phone,      \* phone_number
    orderId,    \* order_id
    typed,      \* texts typed by human_type inside the bypass, in order
    nextClicked,   \* next_clicked
    verifyClicked, \* verify_clicked
    smsText,    \* sms_text
    pvResult,   \* "none" | "True" | "False": the value handle_phone_verification returned
    pvTrace,    \* stages entered, in order
    phoneInput, \* phone_input is an element (FALSE: None)
    otpInput,   \* otp_input is an element (FALSE: None)
    calls,      \* calls of get_smspool_number and of the SMS-check endpoint, in order: <<"purchase">> or <<"sms", order id>>
    \* ---- get_smspool_sms ----
    retries,    \* the local variable retries
    res,        \* the latest response (res)
    polls,      \* requests issued after the initial one
    sleeps,     \* calls of time.sleep(15)
    busyOnly,   \* every response so far: status 200, no populated sms, time_left > 0
    \* ---- main ----
    mpc,        \* position of main
    header,     \* TRUE when the header has a max_parallel_tabs column
    rows,       \* the worklist as read_google_sheet returns it
    width,      \* MAX_PARALLEL_TABS
    bi,         \* the loop variable i of the batch loop (0-based offset)
    bj,         \* index of the next row of the current batch
    threads,    \* the list threads of the current batch (row indices)
    ji,         \* index of the next thread to join
    worker,     \* row index -> "idle" | "running" | "finished"
    launches,   \* row index -> number of workers started for it
    batchOf,    \* row index -> number of the batch that started its worker, 0 when none
    batches,    \* the slices formed so far: <<first row, last row>>
    args,       \* row index -> <<gemail, worker_id>> passed to its thread, <<>> when none
    profile,    \* row index -> user_data_dir its workflow formed, <<>> when none
    outcome,    \* row index -> "none" | "True" | "False": what its workflow returned
    \* ---- update_status_in_sheet ----
    upc,        \* position: "off" | "try" | "returned"
    payload,    \* the arguments: [email, status]
    attempt,    \* the loop variable attempt
    posts,      \* outcomes of requests.post / raise_for_status, in order
    delays,     \* calls of random_delay(2)
    uret,       \* "none" | "True" | "False": the value returned
    \* ---- find_and_click_element ----
    fpc,        \* position: "off" | "selector" | "frame" | "wait" | "except" | "returned" | "raised"
    selectors,  \* number of locators in the list selectors
    timeout,    \* the argument timeout, in seconds
    selector,   \* index of the locator of the current iteration
    iframes,    \* number of elements find_elements returned for this locator
    iframe,     \* index of the frame being searched; iframes + 1: the top-level search
    ctx,        \* the driver's context: 0 top-level document, k inside frame k
    waited,     \* seconds spent in WebDriverWait(...).until so far
    clicks,     \* elements clicked, in order: <<selector, frame>>
    fret,       \* "none" | "True" | "False": the value returned
    \* ---- a pure expression applied to one input ----
    ppc,        \* "off" | "in" | "out"
    arg,        \* the input string
    result      \* the value computed from it, <<>> before

wfVars == <<pc, step, made, last, driver, exc, reports, shots, quits, quitFails, ret,
            failStep, failClass, reached, succeeded>>
pvVars == <<enabled, pv, sel, numberData, phone, orderId, typed, nextClicked,
            verifyClicked, smsText, pvResult, pvTrace, phoneInput, otpInput, calls>>
smsVars == <<retries, res, polls, sleeps, busyOnly>>
mainVars == <<mpc, header, rows, width, bi, bj, threads, ji, worker, launches,
              batchOf, batches, args, profile, outcome>>
updVars == <<upc, payload, attempt, posts, delays, uret>>
findVars == <<fpc, selectors, timeout, selector, iframes, iframe, ctx, waited, clicks, fret>>
pureVars == <<ppc, arg, result>>
fnVars == <<updVars, findVars, pureVars>>
vars == <<wfVars, pvVars, smsVars, mainVars, fnVars>>

\* The three outcomes of a driver call.
Outcomes == {"ok", "listed", "other"}

\* range(3) of every retry loop.
MaxAttempts == 3

\* The steps of process_single_account in source order.  kind: "once" (one
\* try, except Exception: screenshot, report, raise), "retry" (for attempt
\* in range(3), except the listed classes), "optional" (except Exception:
\* print), "bypass", "understand", "continue", "allow".
Steps == <<
    [tag |-> "navigate_instantly",       kind |-> "once",       msg |-> "Failed to navigate to Instantly login"],
    [tag |-> "instantly_email_input",    kind |-> "retry",      msg |-> "Failed to enter Instantly email"],
    [tag |-> "instantly_password_input", kind |-> "retry",      msg |-> "Failed to enter Instantly password"],
    [tag |-> "instantly_login_button",   kind |-> "retry",      msg |-> "Failed to click Instantly login button"],
    [tag |-> "add_new_button",           kind |-> "retry",      msg |-> "Failed to click Add New button"],
    [tag |-> "gmail_option",             kind |-> "retry",      msg |-> "Failed to click Gmail option"],
    [tag |-> "oauth_option",             kind |-> "retry",      msg |-> "Failed to click OAuth option"],
    [tag |-> "oauth_login_button",       kind |-> "retry",      msg |-> "Failed to click OAuth Login button"],
    [tag |-> "switch_window",            kind |-> "once",       msg |-> "Failed to switch to Google login window"],
    [tag |-> "use_another_account",      kind |-> "optional",   msg |-> ""],
    [tag |-> "gmail_email_input",        kind |-> "retry",      msg |-> "Failed to enter Gmail email or click Next"],
    [tag |-> "gmail_password_input",     kind |-> "retry",      msg |-> "Failed to enter Gmail password or click Next"],
    [tag |-> "phone_verification",       kind |-> "bypass",     msg |-> ""],
    [tag |-> "i_understand_button",      kind |-> "understand", msg |-> ""],
    [tag |-> "continue_button",          kind |-> "continue",   msg |-> "Continue button not found within 10 seconds"],
    [tag |-> "allow_button",             kind |-> "allow",      msg |-> "Allow button not found within 10 seconds"],
    [tag |-> "switch_back_window",       kind |-> "once",       msg |-> "Failed to switch back to main window"],
    [tag |-> "connected",                kind |-> "optional",   msg |-> ""],
    [tag |-> "back",                     kind |-> "optional",   msg |-> ""] >>

NSteps == Len(Steps)
StepIndex(t) == CHOOSE k \in 1..NSteps : Steps[k].tag = t
Kind(k) == Steps[k].kind

\* A status string: 'done', or f"issue: {message}".
Done == <<"done">>
Issue(m) == <<"issue: ", m>>
IsIssue(s) == s[1] = "issue: "
IsDone(s) == s = Done

\* One call of update_status_in_sheet(gemail, status), made while at step k
\* (k = 0: by the top-level except clause).
Rep(s, k) == [status |-> s, at |-> k]

\* Mutant of LastAttempt: no attempt's failure is fatal.
LastAttemptNever == 2 + 1

\* Mutant of LastAttempt: the failure of the second attempt is already fatal.
LastAttemptEarly == 2 - 1

\* attempt == 2: the attempt whose failure is fatal.
LastAttempt == 2

\* The selectors of understand_btns.
UnderstandSelectors == 5

\* Leaving step k for the next one; after the last step: return True.
Advance(k) ==
    /\ made' = 0
    /\ last' = "none"
    /\ IF k < NSteps
       THEN /\ step' = k + 1
            /\ pc' = "run"
            /\ ret' = ret
       ELSE /\ step' = step
            /\ pc' = "finally"
            /\ ret' = "True"

\* An exception leaves the step and reaches the top-level except clause.
Raise(m, c) ==
    /\ pc' = "handler"
    /\ exc' = m
    /\ failStep' = step
    /\ failClass' = c

\* driver = Driver(...); driver.maximize_window()
CreateDriver ==
    /\ pc = "create"
    /\ \E o \in {"ok", "ctor_raises", "maximize_raises"} :
         /\ driver' = IF o = "ctor_raises" THEN "none" ELSE "live"
         /\ IF o = "ok"
            THEN /\ pc' = "run"
                 /\ UNCHANGED <<exc, failClass>>
            ELSE /\ pc' = "handler"
                 /\ exc' = "other"
                 /\ failClass' = "other"
    /\ UNCHANGED <<step, made, last, reports, shots, quits, quitFails, ret, failStep, reached, succeeded>>
    /\ UNCHANGED <<pvVars, smsVars, mainVars, fnVars>>

\* Steps 1, 9, 16: try ... except Exception: save_screenshot,
\* update_status_in_sheet(issue), raise Exception(error_message).
OnceStep ==
    /\ pc = "run"
    /\ Kind(step) = "once"
    /\ reached' = reached \cup {step}
    /\ \E o \in Outcomes :
         IF o = "ok"
         THEN /\ Advance(step)
              /\ succeeded' = Append(succeeded, step)
              /\ UNCHANGED <<exc, failStep, failClass, shots, reports>>
         ELSE /\ UNCHANGED succeeded
              /\ shots' = Append(shots, Steps[step].tag)
              /\ reports' = Append(reports, Rep(Issue(Steps[step].msg), step))
              /\ Raise(Steps[step].msg, o)
              /\ made' = made + 1
              /\ last' = o
              /\ UNCHANGED <<step, ret>>
    /\ UNCHANGED <<driver, quits, quitFails>>
    /\ UNCHANGED <<pvVars, smsVars, mainVars, fnVars>>

\* Steps 2-8, 11, 12: for attempt in range(3): try ... break; except the
\* listed classes: random_delay; if attempt == 2: save_screenshot,
\* update_status_in_sheet(issue), raise Exception(error_message).
RetryStep ==
    /\ pc = "run"
    /\ Kind(step) = "retry"
    /\ made < MaxAttempts
    /\ reached' = reached \cup {step}
    /\ \E o \in Outcomes :
         CASE o = "ok" ->
                /\ Advance(step)
                /\ succeeded' = Append(succeeded, step)
                /\ UNCHANGED <<exc, failStep, failClass, shots, reports>>
           [] o = "listed" /\ made = LastAttempt ->
                /\ UNCHANGED succeeded
                /\ shots' = Append(shots, Steps[step].tag)
                /\ reports' = Append(reports, Rep(Issue(Steps[step].msg), step))
                /\ Raise(Steps[step].msg, "listed")
                /\ made' = made + 1
                /\ last' = o
                /\ UNCHANGED <<step, ret>>
           [] o = "listed" /\ made # LastAttempt ->
                /\ UNCHANGED succeeded
                /\ IF made + 1 < MaxAttempts
                   THEN /\ made' = made + 1
                        /\ last' = o
                        /\ UNCHANGED <<pc, step, ret, exc, failStep, failClass, shots, reports>>
                   ELSE \* the for loop ends without break or raise
                        /\ Advance(step)
                        /\ UNCHANGED <<exc, failStep, failClass, shots, reports>>
           [] o = "other" ->
                /\ UNCHANGED succeeded
                /\ Raise("other", "other")
                /\ made' = made + 1
                /\ last' = o
                /\ UNCHANGED <<step, ret, shots, reports>>
    /\ UNCHANGED <<driver, quits, quitFails>>
    /\ UNCHANGED <<pvVars, smsVars, mainVars, fnVars>>

\* Step 10, the Connected check and the Back click: try ... except
\* Exception: print.
OptionalStep ==
    /\ pc = "run"
    /\ Kind(step) = "optional"
    /\ reached' = reached \cup {step}
    /\ \E o \in Outcomes : Advance(step)
    /\ UNCHANGED <<driver, exc, reports, shots, quits, quitFails, failStep, failClass, succeeded>>
    /\ UNCHANGED <<pvVars, smsVars, mainVars, fnVars>>

(***************************************************************************)
(* handle_phone_verification and get_smspool_sms.  Strings the code        *)
(* inspects are sequences of one-character strings.                        *)
(***************************************************************************)

\* Python's None where a string is expected.
NoneVal == <<"None">>
\* not v, for v a string or None.
Falsy(v) == v = NoneVal \/ v = <<>>

\* number_data is falsy: get_smspool_number() returned None, or a JSON body
\* that is 0, false, null, "", [] or {}.
NoData == [none |-> TRUE]
\* A truthy JSON body on which the key probing raises TypeError: a non-zero
\* number or true ("key in number_data" raises), a string or a list that
\* contains a probed key or "result" (number_data[key] raises).
RaisingBody == [raising |-> TRUE]
\* A truthy JSON body that is not an object and contains none of the probed
\* keys nor "result" (the list [1], the string "abc"): every "key in
\* number_data" is False and nothing raises.
KeylessBody == [keyless |-> TRUE]

Num1 == <<"1", "5", "5">>
Num0 == <<"0", "0", "1", "5">>
NumPlus == <<"+", "4", "4">>
Ord1 == <<"A", "7">>

\* JSON bodies of the purchase endpoint: a dict, whose "result" is a dict
\* (isDict) or not.
PurchaseResponses == {
    [number |-> Num1, orderid |-> Ord1],
    [phone |-> Num0, order_id |-> Ord1],
    [msisdn |-> NumPlus, id |-> Ord1],
    [result |-> [isDict |-> TRUE, d |-> [number |-> Num1, orderid |-> Ord1]]],
    [id |-> Ord1, result |-> [isDict |-> TRUE, d |-> [phone |-> Num0]]],
    [result |-> [isDict |-> TRUE, d |-> [msisdn |-> NumPlus, id |-> Ord1]]],
    [number |-> <<>>, orderid |-> Ord1],
    [number |-> Num1],
    [success |-> <<"0">>, result |-> [isDict |-> FALSE, d |-> [x \in {} |-> <<>>]]] }

\* for key in keys: if key in d: v = d[key]; break   (v starts as None)
RECURSIVE FirstKey(_, _)
FirstKey(d, keys) ==
    IF keys = <<>> THEN NoneVal
    ELSE IF Head(keys) \in DOMAIN d THEN d[Head(keys)]
    ELSE FirstKey(d, Tail(keys))

\* d.get(key)
Get(d, key) == IF key \in DOMAIN d THEN d[key] ELSE NoneVal
\* a or b
Or(a, b) == IF Falsy(a) THEN b ELSE a

PhoneKeys == <<"number", "phone", "msisdn", "phonenumber">>
OrderKeys == <<"orderid", "order_id", "orderId", "id">>

\* The nested lookup is taken when no phone number was found at top level.
UseNested(d) ==
    /\ Falsy(FirstKey(d, PhoneKeys))
    /\ "result" \in DOMAIN d
    /\ d["result"].isDict

ExtractPhone(d) ==
    IF UseNested(d)
    THEN Or(Get(d["result"].d, "number"), Get(d["result"].d, "phone"))
    ELSE FirstKey(d, PhoneKeys)

ExtractOrder(d) ==
    IF UseNested(d)
    THEN Or(Get(d["result"].d, "orderid"), Get(d["result"].d, "order_id"))
    ELSE FirstKey(d, OrderKeys)

\* s.lstrip("0")
RECURSIVE LStripZeros(_)
LStripZeros(s) ==
    IF s # <<>> /\ Head(s) = "0" THEN LStripZeros(Tail(s)) ELSE s

\* Mutant of FormatNumber: the leading zeros are kept.
FormatNumberKeepZeros(p) ==
    IF p # <<>> /\ Head(p) = "+" THEN p ELSE <<"+">> \o p

\* formatted_number
FormatNumber(p) ==
    IF p # <<>> /\ Head(p) = "+" THEN p ELSE <<"+">> \o LStripZeros(p)

Digits == {"0", "1", "2", "3", "4", "5", "6", "7", "8", "9"}

\* Length of the run of digits of s that starts at position i.
RECURSIVE DigitRun(_, _)
DigitRun(s, i) ==
    IF i <= Len(s) /\ s[i] \in Digits THEN 1 + DigitRun(s, i + 1) ELSE 0

RECURSIVE LStrip(_)
LStrip(s) == IF s # <<>> /\ Head(s) = " " THEN LStrip(Tail(s)) ELSE s
RECURSIVE RStrip(_)
RStrip(s) ==
    IF s # <<>> /\ s[Len(s)] = " " THEN RStrip(SubSeq(s, 1, Len(s) - 1)) ELSE s

OtpMin == 4

\* Mutant of OtpMax: one digit more is taken.
OtpMaxMore == 8 + 1

OtpMax == 8

\* re.search(r"(\d{4,8})", sms_text): leftmost, greedy; else sms_text.strip()
ExtractOtp(s) ==
    LET starts == {i \in 1..Len(s) : DigitRun(s, i) >= OtpMin} IN
    IF starts # {}
    THEN LET i == CHOOSE k \in starts : \A m \in starts : k <= m
             n == IF DigitRun(s, i) > OtpMax THEN OtpMax ELSE DigitRun(s, i)
         IN SubSeq(s, i, i + n - 1)
    ELSE RStrip(LStrip(s))

Sms1 == <<"G", "-", "4", "8", "2", "9", "1", "3", ".">>
Sms2 == <<" ", "o", "k", " ">>

\* Responses of the SMS-check endpoint.  hasSms / hasTl: the key is present.
SmsResponses == {
    [code |-> 200, hasSms |-> FALSE, sms |-> <<>>, hasTl |-> TRUE,  tl |-> 40],
    [code |-> 200, hasSms |-> TRUE,  sms |-> <<>>, hasTl |-> FALSE, tl |-> 0],
    [code |-> 200, hasSms |-> FALSE, sms |-> <<>>, hasTl |-> TRUE,  tl |-> 0],
    [code |-> 200, hasSms |-> TRUE,  sms |-> Sms1, hasTl |-> TRUE,  tl |-> 40],
    [code |-> 200, hasSms |-> TRUE,  sms |-> Sms2, hasTl |-> FALSE, tl |-> 0],
    [code |-> 500, hasSms |-> FALSE, sms |-> <<>>, hasTl |-> FALSE, tl |-> 0] }
NoRes == [code |-> 0, hasSms |-> FALSE, sms |-> <<>>, hasTl |-> FALSE, tl |-> 0]

\* "sms" in res and res["sms"]
HasSms(r) == r.hasSms /\ r.sms # <<>>
\* Mutant of TimeLeft: a reported budget of 0 is taken for the default.
TimeLeftNeverExpired(r) == IF r.hasTl /\ r.tl > 0 THEN r.tl ELSE 30

\* int(res.get("time_left", 30))
TimeLeft(r) == IF r.hasTl THEN r.tl ELSE 30
\* A response of the kind "status 200, no populated sms, time_left > 0".
Busy(r) == r.code = 200 /\ ~HasSms(r) /\ r.hasTl /\ r.tl > 0

\* Mutant of SmsRetries: one re-poll fewer.
SmsRetriesShort == 6 - 1

\* retries = 6
SmsRetries == 6

PhoneSelectors == 5
NextSelectors == 3
OtpSelectors == 5

\* The maxlength attributes of the page's text/tel inputs (-1: no attribute).
PageInputs == {<<>>, <<-1, 3>>, <<10, 6>>}

\* Step 12.5 calls handle_phone_verification(driver, gemail, worker_id).
BypassCall ==
    /\ pc = "run"
    /\ Kind(step) = "bypass"
    /\ pc' = "bypass"
    /\ pv' = "start"
    /\ reached' = reached \cup {step}
    /\ made' = made + 1
    /\ pvTrace' = <<>>
    /\ UNCHANGED <<step, last, driver, exc, reports, shots, quits, quitFails, ret, failStep, failClass,
                   succeeded>>
    /\ UNCHANGED <<calls, phoneInput, otpInput, enabled, sel, numberData, phone, orderId, typed, nextClicked,
                   verifyClicked, smsText, pvResult>>
    /\ UNCHANGED <<smsVars, mainVars, fnVars>>

\* return r from handle_phone_verification
PvReturn(r) ==
    /\ pv' = "return"
    /\ pvResult' = r

\* except Exception: save_screenshot(..., "phone_verification_error"); return False
PvExcept ==
    /\ shots' = Append(shots, "phone_verification_error")
    /\ PvReturn("False")

\* if not ENABLE_PHONE_VERIFICATION: return False
PvStart ==
    /\ pc = "bypass"
    /\ pv = "start"
    /\ IF enabled
       THEN /\ pv' = "detect"
            /\ sel' = 1
            /\ pvTrace' = Append(pvTrace, "detect")
            /\ UNCHANGED pvResult
       ELSE /\ PvReturn("False")
            /\ UNCHANGED <<sel, pvTrace>>
    /\ UNCHANGED <<calls, phoneInput, otpInput, enabled, numberData, phone, orderId, typed, nextClicked,
                   verifyClicked, smsText>>
    /\ UNCHANGED <<wfVars, smsVars, mainVars, fnVars>>

\* Mutant of PvDetect: without "if not phone_input: return False".
PvDetectNoCheck ==
    /\ pc = "bypass"
    /\ pv = "detect"
    /\ \E o \in {"found", "timeout", "other"} :
         CASE o = "found" ->
                /\ phoneInput' = TRUE
                /\ pv' = "purchase"
                /\ pvTrace' = Append(pvTrace, "purchase")
                /\ UNCHANGED <<sel, pvResult, shots>>
           [] o = "timeout" ->
                IF sel < PhoneSelectors
                THEN /\ sel' = sel + 1
                     /\ UNCHANGED <<pv, pvResult, pvTrace, shots, phoneInput>>
                ELSE /\ pv' = "purchase"
                     /\ pvTrace' = Append(pvTrace, "purchase")
                     /\ UNCHANGED <<sel, pvResult, shots, phoneInput>>
           [] o = "other" ->
                /\ PvExcept
                /\ UNCHANGED <<sel, pvTrace, phoneInput>>
    /\ UNCHANGED <<calls, otpInput, enabled, numberData, phone, orderId, typed, nextClicked,
                   verifyClicked, smsText>>
    /\ UNCHANGED <<pc, step, made, last, driver, exc, reports, quits, quitFails, ret,
                   failStep, failClass, reached, succeeded>>
    /\ UNCHANGED <<smsVars, mainVars, fnVars>>

\* One selector of phone_selectors: WebDriverWait(driver, 5).until(presence).
PvDetect ==
    /\ pc = "bypass"
    /\ pv = "detect"
    /\ \E o \in {"found", "timeout", "other"} :
         CASE o = "found" ->
                /\ phoneInput' = TRUE
                /\ pv' = "purchase"
                /\ pvTrace' = Append(pvTrace, "purchase")
                /\ UNCHANGED <<sel, pvResult, shots>>
           [] o = "timeout" ->
                IF sel < PhoneSelectors
                THEN /\ sel' = sel + 1
                     /\ UNCHANGED <<pv, pvResult, pvTrace, shots, phoneInput>>
                ELSE /\ PvReturn("False")
                     /\ UNCHANGED <<sel, pvTrace, shots, phoneInput>>
           [] o = "other" ->
                /\ PvExcept
                /\ UNCHANGED <<sel, pvTrace, phoneInput>>
    /\ UNCHANGED <<calls, otpInput, enabled, numberData, phone, orderId, typed, nextClicked,
                   verifyClicked, smsText>>
    /\ UNCHANGED <<pc, step, made, last, driver, exc, reports, quits, quitFails, ret,
                   failStep, failClass, reached, succeeded>>
    /\ UNCHANGED <<smsVars, mainVars, fnVars>>

\* Mutant of PvPurchase: without "if not phone_number: return False".
PvPurchaseNoCheck ==
    /\ pc = "bypass"
    /\ pv = "purchase"
    /\ calls' = Append(calls, <<"purchase">>)
    /\ \E d \in PurchaseResponses \cup {NoData, RaisingBody, KeylessBody} :
         /\ numberData' = d
         /\ CASE d = NoData ->
                   /\ PvReturn("False")
                   /\ UNCHANGED <<phone, orderId, pvTrace, shots>>
              [] d = RaisingBody ->
                   /\ PvExcept
                   /\ UNCHANGED <<phone, orderId, pvTrace>>
              [] OTHER ->
                   /\ phone' = ExtractPhone(d)
                   /\ orderId' = ExtractOrder(d)
                   /\ pv' = "type_number"
                   /\ pvTrace' = Append(pvTrace, "type_number")
                   /\ UNCHANGED <<shots, pvResult>>
    /\ UNCHANGED <<phoneInput, otpInput, enabled, sel, typed, nextClicked, verifyClicked, smsText>>
    /\ UNCHANGED <<pc, step, made, last, driver, exc, reports, quits, quitFails, ret,
                   failStep, failClass, reached, succeeded>>
    /\ UNCHANGED <<smsVars, mainVars, fnVars>>

\* number_data = get_smspool_number(), then the extraction of phone_number
\* and order_id.
PvPurchase ==
    /\ pc = "bypass"
    /\ pv = "purchase"
    /\ calls' = Append(calls, <<"purchase">>)
    /\ \E d \in PurchaseResponses \cup {NoData, RaisingBody, KeylessBody} :
         /\ numberData' = d
         /\ CASE d = NoData ->
                   /\ PvReturn("False")
                   /\ UNCHANGED <<phone, orderId, pvTrace, shots>>
              [] d = RaisingBody ->
                   /\ PvExcept
                   /\ UNCHANGED <<phone, orderId, pvTrace>>
              [] OTHER ->
                   /\ phone' = ExtractPhone(d)
                   /\ orderId' = ExtractOrder(d)
                   /\ UNCHANGED shots
                   /\ IF Falsy(ExtractPhone(d))
                      THEN /\ PvReturn("False")
                           /\ UNCHANGED pvTrace
                      ELSE /\ pv' = "type_number"
                           /\ pvTrace' = Append(pvTrace, "type_number")
                           /\ UNCHANGED pvResult
    /\ UNCHANGED <<phoneInput, otpInput, enabled, sel, typed, nextClicked, verifyClicked, smsText>>
    /\ UNCHANGED <<pc, step, made, last, driver, exc, reports, quits, quitFails, ret,
                   failStep, failClass, reached, succeeded>>
    /\ UNCHANGED <<smsVars, mainVars, fnVars>>

\* phone_input.clear(); human_type(phone_input, formatted_number)
PvTypeNumber ==
    /\ pc = "bypass"
    /\ pv = "type_number"
    /\ \E o \in {"ok", "raise"} :
         IF o = "ok"
         THEN /\ typed' = Append(typed, FormatNumber(phone))
              /\ pv' = "next"
              /\ sel' = 1
              /\ pvTrace' = Append(pvTrace, "next")
              /\ UNCHANGED <<pvResult, shots>>
         ELSE /\ PvExcept
              /\ UNCHANGED <<typed, sel, pvTrace>>
    /\ UNCHANGED <<calls, phoneInput, otpInput, enabled, numberData, phone, orderId, nextClicked,
                   verifyClicked, smsText>>
    /\ UNCHANGED <<pc, step, made, last, driver, exc, reports, quits, quitFails, ret,
                   failStep, failClass, reached, succeeded>>
    /\ UNCHANGED <<smsVars, mainVars, fnVars>>

\* Mutant of AfterNext: without "if not order_id: return False".
AfterNextNoCheck ==
    /\ pc' = "sms"
    /\ pv' = "poll"
    /\ pvTrace' = Append(pvTrace, "poll")
    /\ UNCHANGED pvResult

\* After the Next loop: if not order_id: return False; else
\* sms_text = get_smspool_sms(order_id).
AfterNext ==
    IF Falsy(orderId)
    THEN /\ PvReturn("False")
         /\ UNCHANGED <<pc, pvTrace>>
    ELSE /\ pc' = "sms"
         /\ pv' = "poll"
         /\ pvTrace' = Append(pvTrace, "poll")
         /\ UNCHANGED pvResult

\* One selector of next_btn_selectors after the phone number: wait, click;
\* a bare except goes to the next selector.
PvNext ==
    /\ pc = "bypass"
    /\ pv = "next"
    /\ \E o \in {"clicked", "fail"} :
         IF o = "clicked"
         THEN /\ nextClicked' = TRUE
              /\ AfterNext
              /\ UNCHANGED sel
         ELSE IF sel < NextSelectors
              THEN /\ sel' = sel + 1
                   /\ UNCHANGED <<pc, pv, pvResult, pvTrace, nextClicked>>
              ELSE /\ AfterNext
                   /\ UNCHANGED <<sel, nextClicked>>
    /\ UNCHANGED <<calls, phoneInput, otpInput, enabled, numberData, phone, orderId, typed, verifyClicked, smsText>>
    /\ UNCHANGED <<step, made, last, driver, exc, reports, shots, quits, quitFails, ret,
                   failStep, failClass, reached, succeeded>>
    /\ UNCHANGED <<smsVars, mainVars, fnVars>>

\* return v from get_smspool_sms: back in handle_phone_verification.
SmsReturn(v) ==
    /\ smsText' = v
    /\ pc' = "bypass"
    /\ pv' = "sms_done"

\* retries -= 1
NextRetries(r) == r - 1

\* get_smspool_sms up to the polling loop: the initial request.
SmsInitial ==
    /\ pc = "sms"
    /\ pv = "poll"
    /\ polls' = 0
    /\ sleeps' = 0
    /\ calls' = Append(calls, <<"sms", orderId>>)
    /\ \/ \* requests.post or response.json() raises
          /\ SmsReturn(NoneVal)
          /\ busyOnly' = FALSE
          /\ UNCHANGED <<retries, res>>
       \/ \E r \in SmsResponses :
            /\ res' = r
            /\ busyOnly' = Busy(r)
            /\ IF r.code # 200
               THEN SmsReturn(NoneVal) /\ UNCHANGED retries
               ELSE IF HasSms(r)
               THEN SmsReturn(r.sms) /\ UNCHANGED retries
               ELSE /\ retries' = SmsRetries
                    /\ pv' = "loop"
                    /\ UNCHANGED <<pc, smsText>>
    /\ UNCHANGED <<phoneInput, otpInput, enabled, sel, numberData, phone, orderId, typed, nextClicked,
                   verifyClicked, pvResult, pvTrace>>
    /\ UNCHANGED <<step, made, last, driver, exc, reports, shots, quits, quitFails, ret,
                   failStep, failClass, reached, succeeded>>
    /\ UNCHANGED <<mainVars, fnVars>>

\* One evaluation of "while retries > 0" and, when it is entered, one
\* iteration of the loop body.
SmsLoop ==
    /\ pc = "sms"
    /\ pv = "loop"
    /\ IF retries <= 0
       THEN \* SMSPool timeout - no SMS received
            /\ SmsReturn(NoneVal)
            /\ UNCHANGED <<retries, res, polls, sleeps, busyOnly, calls>>
       ELSE IF TimeLeft(res) <= 0
       THEN /\ SmsReturn(NoneVal)
            /\ UNCHANGED <<retries, res, polls, sleeps, busyOnly, calls>>
       ELSE /\ sleeps' = sleeps + 1
            /\ polls' = polls + 1
            /\ calls' = Append(calls, <<"sms", orderId>>)
            /\ \/ /\ SmsReturn(NoneVal)
                  /\ busyOnly' = FALSE
                  /\ UNCHANGED <<retries, res>>
               \/ \E r \in SmsResponses :
                    /\ res' = r
                    /\ busyOnly' = (busyOnly /\ Busy(r))
                    /\ IF r.code # 200
                       THEN SmsReturn(NoneVal) /\ UNCHANGED retries
                       ELSE IF HasSms(r)
                       THEN SmsReturn(r.sms) /\ UNCHANGED retries
                       ELSE /\ retries' = NextRetries(retries)
                            /\ UNCHANGED <<pc, pv, smsText>>
    /\ UNCHANGED <<phoneInput, otpInput, enabled, sel, numberData, phone, orderId, typed, nextClicked,
                   verifyClicked, pvResult, pvTrace>>
    /\ UNCHANGED <<step, made, last, driver, exc, reports, shots, quits, quitFails, ret,
                   failStep, failClass, reached, succeeded>>
    /\ UNCHANGED <<mainVars, fnVars>>

\* if not sms_text: save_screenshot(..., "phone_verification_no_sms"); return False
PvSmsResult ==
    /\ pc = "bypass"
    /\ pv = "sms_done"
    /\ IF Falsy(smsText)
       THEN /\ shots' = Append(shots, "phone_verification_no_sms")
            /\ PvReturn("False")
            /\ UNCHANGED <<sel, pvTrace>>
       ELSE /\ pv' = "otp_find"
            /\ sel' = 1
            /\ pvTrace' = Append(pvTrace, "otp_find")
            /\ UNCHANGED <<shots, pvResult>>
    /\ UNCHANGED <<calls, phoneInput, otpInput, enabled, numberData, phone, orderId, typed, nextClicked,
                   verifyClicked, smsText>>
    /\ UNCHANGED <<pc, step, made, last, driver, exc, reports, quits, quitFails, ret,
                   failStep, failClass, reached, succeeded>>
    /\ UNCHANGED <<smsVars, mainVars, fnVars>>

\* maxlen and 4 <= int(maxlen) <= 8
MaxlenOk(m) == OtpMin <= m /\ m <= OtpMax

\* One selector of otp_selectors (a bare except goes to the next one); after
\* the last one, the scan of the page's inputs by maxlength.
PvOtpFind ==
    /\ pc = "bypass"
    /\ pv = "otp_find"
    /\ \E o \in {"found", "fail"} :
         IF o = "found"
         THEN /\ otpInput' = TRUE
              /\ pv' = "otp_type"
              /\ pvTrace' = Append(pvTrace, "otp_type")
              /\ UNCHANGED <<sel, pvResult, shots>>
         ELSE IF sel < OtpSelectors
              THEN /\ sel' = sel + 1
                   /\ UNCHANGED <<pv, pvResult, pvTrace, shots, otpInput>>
              ELSE \E inputs \in PageInputs :
                     IF \E k \in 1..Len(inputs) : MaxlenOk(inputs[k])
                     THEN /\ otpInput' = TRUE
                          /\ pv' = "otp_type"
                          /\ pvTrace' = Append(pvTrace, "otp_type")
                          /\ UNCHANGED <<sel, pvResult, shots>>
                     ELSE /\ shots' = Append(shots, "phone_verification_no_otp_input")
                          /\ PvReturn("False")
                          /\ UNCHANGED <<sel, pvTrace, otpInput>>
    /\ UNCHANGED <<calls, phoneInput, enabled, numberData, phone, orderId, typed, nextClicked,
                   verifyClicked, smsText>>
    /\ UNCHANGED <<pc, step, made, last, driver, exc, reports, quits, quitFails, ret,
                   failStep, failClass, reached, succeeded>>
    /\ UNCHANGED <<smsVars, mainVars, fnVars>>

\* otp_input.clear(); human_type(otp_input, otp_code)
PvOtpType ==
    /\ pc = "bypass"
    /\ pv = "otp_type"
    /\ \E o \in {"ok", "raise"} :
         IF o = "ok"
         THEN /\ typed' = Append(typed, ExtractOtp(smsText))
              /\ pv' = "verify"
              /\ sel' = 1
              /\ pvTrace' = Append(pvTrace, "verify")
              /\ UNCHANGED <<pvResult, shots>>
         ELSE /\ PvExcept
              /\ UNCHANGED <<typed, sel, pvTrace>>
    /\ UNCHANGED <<calls, phoneInput, otpInput, enabled, numberData, phone, orderId, nextClicked,
                   verifyClicked, smsText>>
    /\ UNCHANGED <<pc, step, made, last, driver, exc, reports, quits, quitFails, ret,
                   failStep, failClass, reached, succeeded>>
    /\ UNCHANGED <<smsVars, mainVars, fnVars>>

\* One selector of next_btn_selectors after the OTP; then return True.
PvVerify ==
    /\ pc = "bypass"
    /\ pv = "verify"
    /\ \E o \in {"clicked", "fail"} :
         IF o = "clicked"
         THEN /\ verifyClicked' = TRUE
              /\ PvReturn("True")
              /\ UNCHANGED sel
         ELSE IF sel < NextSelectors
              THEN /\ sel' = sel + 1
                   /\ UNCHANGED <<pv, pvResult, verifyClicked>>
              ELSE /\ PvReturn("True")
                   /\ UNCHANGED <<sel, verifyClicked>>
    /\ UNCHANGED <<calls, phoneInput, otpInput, enabled, numberData, phone, orderId, typed, nextClicked,
                   smsText, pvTrace>>
    /\ UNCHANGED <<wfVars, smsVars, mainVars, fnVars>>

\* Lines 671-680: the result is only printed; the locals of the bypass go
\* out of scope.
BypassReturn ==
    /\ pc = "bypass"
    /\ pv = "return"
    /\ Advance(step)
    /\ pv' = "idle"
    /\ sel' = 1
    /\ numberData' = NoData
    /\ phone' = NoneVal
    /\ orderId' = NoneVal
    /\ smsText' = NoneVal
    /\ retries' = 0
    /\ res' = NoRes
    /\ typed' = <<>>
    /\ nextClicked' = FALSE
    /\ verifyClicked' = FALSE
    /\ polls' = 0
    /\ sleeps' = 0
    /\ busyOnly' = TRUE
    /\ phoneInput' = FALSE
    /\ otpInput' = FALSE
    /\ UNCHANGED <<calls, enabled, pvResult, pvTrace>>
    /\ UNCHANGED <<driver, exc, reports, shots, quits, quitFails, failStep, failClass, reached, succeeded>>
    /\ UNCHANGED <<mainVars, fnVars>>

\* Step 13, one selector of understand_btns.  "clicked": the element was
\* found (in a frame or at top level) and clicked; "absent": every wait
\* ended in a listed exception; "error": another exception reached the
\* clause at line 749, which calls driver.switch_to.default_content().
\* When that call raises, the clause at line 755 takes a screenshot and
\* calls default_content() again, outside any try of the step.
UnderstandStep ==
    /\ pc = "run"
    /\ Kind(step) = "understand"
    /\ reached' = reached \cup {step}
    /\ \E o \in {"clicked", "absent", "error"}, d1, d2 \in {"ok", "raise"} :
         CASE o = "clicked" ->
                /\ Advance(step)
                /\ UNCHANGED <<exc, failStep, failClass, shots>>
           [] o = "absent" \/ (o = "error" /\ d1 = "ok") ->
                IF made + 1 < UnderstandSelectors
                THEN /\ made' = made + 1
                     /\ last' = o
                     /\ UNCHANGED <<pc, step, ret, exc, failStep, failClass, shots>>
                ELSE /\ Advance(step)
                          /\ UNCHANGED <<exc, failStep, failClass, shots>>
           [] o = "error" /\ d1 = "raise" ->
                /\ shots' = Append(shots, Steps[step].tag)
                /\ IF d2 = "ok"
                   THEN /\ Advance(step)
                                /\ UNCHANGED <<exc, failStep, failClass>>
                   ELSE /\ Raise("other", "other")
                        /\ made' = made + 1
                        /\ last' = o
                        /\ UNCHANGED <<step, ret>>
    /\ UNCHANGED <<driver, reports, quits, quitFails, succeeded>>
    /\ UNCHANGED <<pvVars, smsVars, mainVars, fnVars>>

\* Mutant of GateFailure: the status update of the failure clause is missing.
GateFailureSilent(sh, rp, qn, qf, tag, m, qs) ==
    /\ shots' = Append(sh, tag)
    /\ reports' = rp
    /\ quits' = qn + 1
    /\ \E q \in qs :
         IF q = "ok"
         THEN /\ ret' = "False"
              /\ pc' = "finally"
              /\ exc' = ""
              /\ quitFails' = qf
         ELSE /\ ret' = ret
              /\ pc' = "handler"
              /\ exc' = q
              /\ quitFails' = qf + 1

\* The failure clause of a gate, entered with the screenshots sh, the
\* reports rp and qn calls of quit so far: save_screenshot,
\* update_status_in_sheet(issue), driver.quit(), return False.  An exception
\* of quit (one of qs) leaves the clause for the top-level except clause.
GateFailure(sh, rp, qn, qf, tag, m, qs) ==
    /\ shots' = Append(sh, tag)
    /\ reports' = Append(rp, Rep(Issue(m), step))
    /\ quits' = qn + 1
    /\ \E q \in qs :
         IF q = "ok"
         THEN /\ ret' = "False"
              /\ pc' = "finally"
              /\ exc' = ""
              /\ quitFails' = qf
         ELSE /\ ret' = ret
              /\ pc' = "handler"
              /\ exc' = q
              /\ quitFails' = qf + 1

\* Step 14: find_and_click_element(driver, continue_btns, ..., timeout=10,
\* use_js_click=True) returns True or False, or raises.
ContinueGate ==
    /\ pc = "run"
    /\ Kind(step) = "continue"
    /\ reached' = reached \cup {step}
    /\ \E f \in {"True", "False", "listed", "other"} :
         /\ succeeded' = IF f = "True" THEN Append(succeeded, step) ELSE succeeded
         /\ CASE f = "True" ->
                /\ Advance(step)
                /\ UNCHANGED <<exc, failStep, failClass, shots, reports, quits, quitFails>>
           [] f = "False" ->
                /\ failStep' = step
                /\ failClass' = "notfound"
                /\ made' = made + 1
                /\ last' = f
                /\ step' = step
                /\ \/ GateFailure(shots, reports, quits, quitFails, "continue_button_not_found",
                                  "Continue button not found within 10 seconds - closing browser",
                                  {"ok", "other"})
                   \/ \* driver.quit() at line 784 raises a listed class: the clause at line 787
                      GateFailure(Append(shots, "continue_button_not_found"),
                                  Append(reports, Rep(Issue("Continue button not found within 10 seconds - closing browser"), step)),
                                  quits + 1, quitFails + 1, "continue_button_error", Steps[step].msg, Outcomes)
           [] f = "listed" ->
                /\ failStep' = step
                /\ failClass' = "listed"
                /\ made' = made + 1
                /\ last' = f
                /\ step' = step
                /\ GateFailure(shots, reports, quits, quitFails, "continue_button_error", Steps[step].msg, Outcomes)
           [] f = "other" ->
                /\ Raise("other", "other")
                /\ made' = made + 1
                /\ last' = f
                /\ UNCHANGED <<step, ret, shots, reports, quits, quitFails>>
    /\ UNCHANGED driver
    /\ UNCHANGED <<pvVars, smsVars, mainVars, fnVars>>

\* Step 15: wait_for_element_visible(allow_btn, timeout=10), click,
\* update_status_in_sheet(gemail, 'done').
AllowGate ==
    /\ pc = "run"
    /\ Kind(step) = "allow"
    /\ reached' = reached \cup {step}
    /\ \E o \in Outcomes :
         /\ succeeded' = IF o = "ok" THEN Append(succeeded, step) ELSE succeeded
         /\ CASE o = "ok" ->
                /\ reports' = Append(reports, Rep(Done, step))
                /\ Advance(step)
                /\ UNCHANGED <<exc, failStep, failClass, shots, quits, quitFails>>
           [] o = "listed" ->
                /\ failStep' = step
                /\ failClass' = "listed"
                /\ made' = made + 1
                /\ last' = o
                /\ step' = step
                /\ GateFailure(shots, reports, quits, quitFails, "allow_button_not_found", Steps[step].msg, Outcomes)
           [] o = "other" ->
                /\ Raise("other", "other")
                /\ made' = made + 1
                /\ last' = o
                /\ UNCHANGED <<step, ret, shots, reports, quits, quitFails>>
    /\ UNCHANGED driver
    /\ UNCHANGED <<pvVars, smsVars, mainVars, fnVars>>

\* Mutant of Handler: the top-level except clause reports nothing.
HandlerSilent ==
    /\ pc = "handler"
    /\ ret' = "False"
    /\ pc' = "finally"
    /\ UNCHANGED <<step, made, last, driver, exc, reports, shots, quits, quitFails,
                   failStep, failClass, reached, succeeded>>
    /\ UNCHANGED <<pvVars, smsVars, mainVars, fnVars>>

\* except Exception as e: update_status_in_sheet(gemail, f"issue: {str(e)}");
\* return False
Handler ==
    /\ pc = "handler"
    /\ reports' = Append(reports, Rep(Issue(exc), 0))
    /\ ret' = "False"
    /\ pc' = "finally"
    /\ UNCHANGED <<step, made, last, driver, exc, shots, quits, quitFails, failStep, failClass, reached, succeeded>>
    /\ UNCHANGED <<pvVars, smsVars, mainVars, fnVars>>

\* Mutant of Finally: the cleanup phase does not quit the driver.
FinallyNoQuit ==
    /\ pc = "finally"
    /\ pc' = "returned"
    /\ UNCHANGED <<step, made, last, driver, exc, reports, shots, quits, quitFails,
                   ret, failStep, failClass, reached, succeeded>>
    /\ UNCHANGED <<pvVars, smsVars, mainVars, fnVars>>

\* finally: if driver: try: driver.quit() except Exception: print
Finally ==
    /\ pc = "finally"
    /\ IF driver # "none"
       THEN /\ quits' = quits + 1
            /\ \E q \in Outcomes : quitFails' = IF q = "ok" THEN quitFails ELSE quitFails + 1
       ELSE UNCHANGED <<quits, quitFails>>
    /\ pc' = "returned"
    /\ UNCHANGED <<step, made, last, driver, exc, reports, shots, ret, failStep, failClass, reached, succeeded>>
    /\ UNCHANGED <<pvVars, smsVars, mainVars, fnVars>>

(***************************************************************************)
(* One execution of process_single_account.                                *)
(***************************************************************************)
InitWorkflowVars ==
    /\ step = 1
    /\ made = 0
    /\ last = "none"
    /\ driver = "none"
    /\ exc = ""
    /\ reports = <<>>
    /\ shots = <<>>
    /\ quits = 0
    /\ quitFails = 0
    /\ ret = "none"
    /\ failStep = 0
    /\ failClass = "none"
    /\ reached = {}
    /\ succeeded = <<>>
    /\ pv = "idle"
    /\ sel = 1
    /\ numberData = NoData
    /\ phone = NoneVal
    /\ orderId = NoneVal
    /\ typed = <<>>
    /\ nextClicked = FALSE
    /\ verifyClicked = FALSE
    /\ smsText = NoneVal
    /\ pvResult = "none"
    /\ pvTrace = <<>>
    /\ phoneInput = FALSE
    /\ otpInput = FALSE
    /\ calls = <<>>
    /\ retries = 0
    /\ res = NoRes
    /\ polls = 0
    /\ sleeps = 0
    /\ busyOnly = TRUE

\* No call of update_status_in_sheet is being followed.
InitUpdOff ==
    /\ upc = "off"
    /\ payload = [email |-> "", status |-> <<>>]
    /\ attempt = 0
    /\ posts = <<>>
    /\ delays = 0
    /\ uret = "none"

\* No call of find_and_click_element is being followed.
InitFindOff ==
    /\ fpc = "off"
    /\ selectors = 0
    /\ timeout = 0
    /\ selector = 1
    /\ iframes = 0
    /\ iframe = 1
    /\ ctx = 0
    /\ waited = 0
    /\ clicks = <<>>
    /\ fret = "none"

InitPureOff ==
    /\ ppc = "off"
    /\ arg = <<>>
    /\ result = <<>>

InitFnOff ==
    /\ InitUpdOff
    /\ InitFindOff
    /\ InitPureOff

InitMainOff ==
    /\ mpc = "off"
    /\ header = FALSE
    /\ rows = <<>>
    /\ width = 1
    /\ bi = 0
    /\ bj = 1
    /\ threads = <<>>
    /\ ji = 1
    /\ worker = <<>>
    /\ launches = <<>>
    /\ batchOf = <<>>
    /\ batches = <<>>
    /\ args = <<>>
    /\ profile = <<>>
    /\ outcome = <<>>

Init ==
    /\ pc = "create"
    /\ enabled \in BOOLEAN
    /\ InitWorkflowVars
    /\ InitMainOff
    /\ InitFnOff

Next ==
    \/ CreateDriver
    \/ OnceStep
    \/ RetryStep
    \/ OptionalStep
    \/ BypassCall
    \/ PvStart
    \/ PvDetect
    \/ PvPurchase
    \/ PvTypeNumber
    \/ PvNext
    \/ SmsInitial
    \/ SmsLoop
    \/ PvSmsResult
    \/ PvOtpFind
    \/ PvOtpType
    \/ PvVerify
    \/ BypassReturn
    \/ UnderstandStep
    \/ ContinueGate
    \/ AllowGate
    \/ Handler
    \/ Finally

Spec == Init /\ [][Next]_vars

(***************************************************************************)
(* read_google_sheet and main.  A cell is a sequence of one-character      *)
(* strings; a row is a sequence of cells.                                  *)
(***************************************************************************)

\* Largest worklist explored.
MaxRows == 3

Pending == <<"p", "e", "n", "d", "i", "n", "g">>
DoneCell == <<" ", "D", "o", "n", "e", " ">>
MaxTabsName == <<"m", "a", "x", "_", "p", "a", "r", "a", "l", "l", "e", "l", "_", "t", "a", "b", "s">>

\* Rows of the sheet as csv.reader yields them (the last one lacks the
\* status cell).
RawRows == {
    << <<"a">>, <<"p">>, <<"u">>, <<"q">>, Pending >>,
    << <<"b">>, <<"p">>, <<"u">>, <<"q">>, Pending >>,
    << <<"a">>, <<"p">>, <<"u">>, <<"q">>, DoneCell >>,
    << <<"b">>, <<"p">>, <<"u">>, <<"q">> >> }

\* Contents of the max_parallel_tabs cell of the first data row.
WidthCells == { <<"x">>, <<"0">>, <<"2">>, <<" ", "3">> }

BaseHeader == << <<"e">>, <<"p">>, <<"u">>, <<"q">>, <<"s">> >>

\* The padding loop of read_google_sheet.
ReadRow(r) ==
    LET r1 == IF Len(r) < 5 THEN r \o [k \in 1..(5 - Len(r)) |-> <<>>] ELSE r
        r2 == IF Len(r1) < 6 THEN Append(r1, Pending) ELSE r1
        r3 == IF Len(r2) < 7 THEN Append(r2, <<>>) ELSE r2
    IN r3

\* s.strip()
Strip(s) == RStrip(LStrip(s))

LowerChar(c) ==
    CASE c = "D" -> "d" [] c = "O" -> "o" [] c = "N" -> "n" [] c = "E" -> "e"
      [] OTHER -> c
\* s.lower()
Lower(s) == [k \in 1..Len(s) |-> LowerChar(s[k])]

\* s.isdigit()
IsDigitStr(s) == s # <<>> /\ \A k \in 1..Len(s) : s[k] \in Digits

DigitVal(c) ==
    CASE c = "0" -> 0 [] c = "1" -> 1 [] c = "2" -> 2 [] c = "3" -> 3
      [] c = "4" -> 4 [] c = "5" -> 5 [] c = "6" -> 6 [] c = "7" -> 7
      [] c = "8" -> 8 [] c = "9" -> 9
RECURSIVE ParseInt(_)
ParseInt(s) ==
    IF s = <<>> THEN 0 ELSE 10 * ParseInt(SubSeq(s, 1, Len(s) - 1)) + DigitVal(s[Len(s)])
\* int(s), for s with s.strip().isdigit()
ToInt(s) == ParseInt(Strip(s))

DEFAULT_MAX_PARALLEL_TABS == 1

\* header.index("max_parallel_tabs") (1-based), 0 when absent.
HeaderIndex(h) ==
    IF \E k \in 1..Len(h) : h[k] = MaxTabsName
    THEN CHOOSE k \in 1..Len(h) : h[k] = MaxTabsName /\ \A m \in 1..(k - 1) : h[m] # MaxTabsName
    ELSE 0

\* Lines 875-883: MAX_PARALLEL_TABS.  rows[0] of an empty worklist raises
\* IndexError, which the except clause turns into the default.
ParseWidth(h, rs) ==
    IF HeaderIndex(h) = 0 THEN DEFAULT_MAX_PARALLEL_TABS
    ELSE IF rs = <<>> THEN DEFAULT_MAX_PARALLEL_TABS
    ELSE LET cell == rs[1][HeaderIndex(h)] IN
         IF IsDigitStr(Strip(cell)) THEN ToInt(cell) ELSE DEFAULT_MAX_PARALLEL_TABS

Min(a, b) == IF a < b THEN a ELSE b

\* rows[i:i + MAX_PARALLEL_TABS], as <<first, last>> 1-based row numbers.
Slice(i, w, n) == <<i + 1, Min(i + w, n)>>
\* Mutant of NextOffset: the next batch starts one row too far.
NextOffsetSkip(i, w) == i + w + 1

\* The step of range(0, len(rows), MAX_PARALLEL_TABS).
NextOffset(i, w) == i + w

\* row[4].strip().lower() == "done"
IsDoneRow(r) == Lower(Strip(r[5])) = <<"d", "o", "n", "e">>

\* worker_id = f"thread_{i+1}", i the offset of the batch.
WorkerId(i) == <<"thread_", i + 1>>

\* The values random.randint(1000, 9999) can return: the two ends of the range.
ProfileRands == {1000, 9999}

\* f"/tmp/seleniumbase_user_data_{worker_id}_{os.getpid()}_{random.randint(1000, 9999)}";
\* os.getpid() is the same in every thread of the run.
ProfileName(wid, n) == <<"/tmp/seleniumbase_user_data_", wid, "pid", n>>

\* Mutant of JoinReady: join returns only for a workflow that returned True.
JoinReadyOnSuccess(r) == worker[r] = "finished" /\ outcome[r] = "True"

\* Mutant of JoinReady: the coordinator does not wait for the thread.
JoinReadyNoWait(r) == TRUE

\* thread.join() returns once the thread has finished.
JoinReady(r) == worker[r] = "finished"

NRows == Len(rows)
Batch == batches[Len(batches)]

Headers == {BaseHeader, Append(BaseHeader, MaxTabsName)}

\* The first data row with the cell c in the max_parallel_tabs column.
WithCell(r, c) == IF Len(r) = 5 THEN Append(r, c) ELSE r

wfIdle ==
    /\ pc = "idle"
    /\ enabled = TRUE
    /\ InitWorkflowVars

\* main after read_google_sheet() has returned header and rows.  c is the
\* cell of the first data row in the max_parallel_tabs column; c = Pending:
\* the csv row has no such cell, and the padding loop puts 'pending' there.
InitMain ==
    /\ wfIdle
    /\ InitFnOff
    /\ mpc = "width"
    /\ header \in Headers
    /\ \E n \in 0..MaxRows :
         \E raw \in [1..n -> RawRows] :
           \E c \in WidthCells \cup {Pending} :
             /\ (HeaderIndex(header) = 0 \/ n = 0) => c = Pending
             /\ rows = [k \in 1..n |->
                          IF k = 1 /\ c # Pending THEN ReadRow(WithCell(raw[k], c))
                          ELSE ReadRow(raw[k])]
             /\ worker = [k \in 1..n |-> "idle"]
             /\ launches = [k \in 1..n |-> 0]
             /\ batchOf = [k \in 1..n |-> 0]
             /\ args = [k \in 1..n |-> <<>>]
             /\ profile = [k \in 1..n |-> <<>>]
             /\ outcome = [k \in 1..n |-> "none"]
    /\ width = 0
    /\ bi = 0
    /\ bj = 1
    /\ threads = <<>>
    /\ ji = 1
    /\ batches = <<>>

\* Lines 871-885.
MainWidth ==
    /\ mpc = "width"
    /\ width' = ParseWidth(header, rows)
    /\ mpc' = "loop"
    /\ UNCHANGED <<header, rows, bi, bj, threads, ji, worker, launches, batchOf, batches>>
    /\ UNCHANGED <<args, profile, outcome>>
    /\ UNCHANGED <<wfVars, pvVars, smsVars, fnVars>>

\* for i in range(0, len(rows), MAX_PARALLEL_TABS): batch = rows[i:i + W];
\* threads = [].  range() with step 0 raises ValueError out of main.
MainLoop ==
    /\ mpc = "loop"
    /\ IF width = 0
       THEN /\ mpc' = "crashed"
            /\ UNCHANGED <<bj, threads, batches>>
       ELSE IF bi < NRows
       THEN /\ batches' = Append(batches, Slice(bi, width, NRows))
            /\ threads' = <<>>
            /\ bj' = bi + 1
            /\ mpc' = "launch"
       ELSE /\ mpc' = "done"
            /\ UNCHANGED <<bj, threads, batches>>
    /\ UNCHANGED <<header, rows, width, bi, ji, worker, launches, batchOf>>
    /\ UNCHANGED <<args, profile, outcome>>
    /\ UNCHANGED <<wfVars, pvVars, smsVars, fnVars>>

\* for row in batch: skip a done row, else start a thread running
\* process_single_account for it; after the last row: the join loop.
MainLaunch ==
    /\ mpc = "launch"
    /\ IF bj <= Batch[2]
       THEN /\ bj' = bj + 1
            /\ IF IsDoneRow(rows[bj])
               THEN UNCHANGED <<threads, worker, launches, batchOf, args>>
               ELSE /\ threads' = Append(threads, bj)
                    /\ worker' = [worker EXCEPT ![bj] = "running"]
                    /\ launches' = [launches EXCEPT ![bj] = @ + 1]
                    /\ batchOf' = [batchOf EXCEPT ![bj] = Len(batches)]
                    /\ args' = [args EXCEPT ![bj] = <<Strip(rows[bj][1]), WorkerId(bi)>>]
            /\ UNCHANGED <<mpc, ji>>
       ELSE /\ mpc' = "join"
            /\ ji' = 1
            /\ UNCHANGED <<bj, threads, worker, launches, batchOf, args>>
    /\ UNCHANGED <<header, rows, width, bi, batches, profile, outcome>>
    /\ UNCHANGED <<wfVars, pvVars, smsVars, fnVars>>

\* for thread in threads: thread.join(); then the next value of i.
MainJoin ==
    /\ mpc = "join"
    /\ IF ji <= Len(threads)
       THEN /\ JoinReady(threads[ji])
            /\ ji' = ji + 1
            /\ UNCHANGED <<mpc, bi>>
       ELSE /\ bi' = NextOffset(bi, width)
            /\ mpc' = "loop"
            /\ UNCHANGED ji
    /\ UNCHANGED <<header, rows, width, bj, threads, worker, launches, batchOf, batches>>
    /\ UNCHANGED <<args, profile, outcome>>
    /\ UNCHANGED <<wfVars, pvVars, smsVars, fnVars>>

\* The first statement of the workflow: user_data_dir from worker_id,
\* os.getpid() and random.randint(1000, 9999).
WorkerProfile(r) ==
    /\ worker[r] = "running"
    /\ profile[r] = <<>>
    /\ \E n \in ProfileRands : profile' = [profile EXCEPT ![r] = ProfileName(args[r][2], n)]
    /\ UNCHANGED <<mpc, header, rows, width, bi, bj, threads, ji, worker, launches, batchOf, batches>>
    /\ UNCHANGED <<args, outcome>>
    /\ UNCHANGED <<wfVars, pvVars, smsVars, fnVars>>

\* A worker thread enters update_status_in_sheet.
WorkerReport(r) ==
    /\ worker[r] \in {"running", "reported"}
    /\ profile[r] # <<>>
    /\ worker' = [worker EXCEPT ![r] = "reporting"]
    /\ UNCHANGED <<mpc, header, rows, width, bi, bj, threads, ji, launches, batchOf, batches>>
    /\ UNCHANGED <<args, profile, outcome>>
    /\ UNCHANGED <<wfVars, pvVars, smsVars, fnVars>>

\* update_status_in_sheet returns.
WorkerReported(r) ==
    /\ worker[r] = "reporting"
    /\ worker' = [worker EXCEPT ![r] = "reported"]
    /\ UNCHANGED <<mpc, header, rows, width, bi, bj, threads, ji, launches, batchOf, batches>>
    /\ UNCHANGED <<args, profile, outcome>>
    /\ UNCHANGED <<wfVars, pvVars, smsVars, fnVars>>

\* process_single_account returns (True or False): the thread ends.
WorkerFinish(r) ==
    /\ worker[r] = "reported"
    /\ worker' = [worker EXCEPT ![r] = "finished"]
    /\ \E v \in {"True", "False"} : outcome' = [outcome EXCEPT ![r] = v]
    /\ UNCHANGED <<mpc, header, rows, width, bi, bj, threads, ji, launches, batchOf, batches>>
    /\ UNCHANGED <<args, profile>>
    /\ UNCHANGED <<wfVars, pvVars, smsVars, fnVars>>

NextMain ==
    \/ MainWidth
    \/ MainLoop
    \/ MainLaunch
    \/ MainJoin
    \/ \E r \in 1..NRows : WorkerProfile(r)
    \/ \E r \in 1..NRows : WorkerReport(r)
    \/ \E r \in 1..NRows : WorkerReported(r)
    \/ \E r \in 1..NRows : WorkerFinish(r)

SpecMain == InitMain /\ [][NextMain]_vars

\* The coordinator keeps running; a started thread keeps running, and a
\* workflow makes only finitely many status reports before it returns.
FairMain ==
    /\ WF_vars(MainWidth \/ MainLoop \/ MainLaunch \/ MainJoin)
    /\ \A r \in 1..MaxRows :
         /\ WF_vars(r \in DOMAIN worker /\ WorkerProfile(r))
         /\ WF_vars(r \in DOMAIN worker /\ WorkerReport(r))
         /\ WF_vars(r \in DOMAIN worker /\ WorkerReported(r))
         /\ SF_vars(r \in DOMAIN worker /\ WorkerFinish(r))

\* Worklists for the fair runs: MaxRows rows that differ only in what main
\* reads of a row (its status cell, and the width cell of the first row).
InitMainFair ==
    /\ InitMain
    /\ NRows = MaxRows
    /\ HeaderIndex(header) # 0
    /\ \A k \in 1..NRows : rows[k][1] = <<"a">>

SpecMainFair == InitMainFair /\ [][NextMain]_vars /\ FairMain

(***************************************************************************)
(* update_status_in_sheet(email, status), one call on its own.             *)
(***************************************************************************)

\* Mutant of max_retries: one attempt more.
max_retries_more == 3 + 1

max_retries == 3

\* requests.post returns a response that raise_for_status accepts ("2xx") or
\* rejects with HTTPError ("bad_status"), or raises another
\* RequestException (connection error, timeout).
PostOutcomes == {"2xx", "bad_status", "request_exception"}

UpdEmails == {"a", "b"}
UpdStatuses == {Done, Issue("m"), Issue("")}

InitUpd ==
    /\ wfIdle
    /\ InitMainOff
    /\ InitFindOff
    /\ InitPureOff
    /\ upc = "try"
    /\ payload \in [email : UpdEmails, status : UpdStatuses]
    /\ attempt = 0
    /\ posts = <<>>
    /\ delays = 0
    /\ uret = "none"

\* One iteration of for attempt in range(max_retries).
UpdAttempt ==
    /\ upc = "try"
    /\ attempt < max_retries
    /\ \E o \in PostOutcomes :
         /\ posts' = Append(posts, o)
         /\ IF o = "2xx"
            THEN /\ uret' = "True"
                 /\ upc' = "returned"
                 /\ UNCHANGED <<attempt, delays>>
            ELSE IF attempt < max_retries - 1
            THEN /\ delays' = delays + 1
                 /\ attempt' = attempt + 1
                 /\ UNCHANGED <<upc, uret>>
            ELSE /\ uret' = "False"
                 /\ upc' = "returned"
                 /\ UNCHANGED <<attempt, delays>>
    /\ UNCHANGED payload
    /\ UNCHANGED <<wfVars, pvVars, smsVars, mainVars, findVars, pureVars>>

NextUpd == UpdAttempt

SpecUpd == InitUpd /\ [][NextUpd]_vars

(***************************************************************************)
(* find_and_click_element(driver, selectors, description, worker_id,       *)
(* timeout, use_js_click), one call on its own.                            *)
(***************************************************************************)

\* Largest number of locators and of frames on the page explored.
MaxLocators == 3
MaxFrames == 2

\* timeout=15 of the signature, and timeout=10 passed by the Continue gate.
DefaultTimeout == 15
ContinueTimeout == 10

InitFind ==
    /\ wfIdle
    /\ InitMainOff
    /\ InitUpdOff
    /\ InitPureOff
    /\ fpc = "selector"
    /\ selectors \in 1..MaxLocators
    /\ timeout \in {DefaultTimeout, ContinueTimeout}
    /\ selector = 1
    /\ iframes = 0
    /\ iframe = 1
    /\ ctx = 0
    /\ waited = 0
    /\ clicks = <<>>
    /\ fret = "none"

\* return v
FindReturn(v) ==
    /\ fret' = v
    /\ fpc' = "returned"

\* for selector in selectors: iframes = driver.find_elements(By.TAG_NAME,
\* 'iframe'); after the last locator: return False.
FindSelector ==
    /\ fpc = "selector"
    /\ IF selector > selectors
       THEN /\ FindReturn("False")
            /\ UNCHANGED <<iframes, iframe>>
       ELSE \E o \in {"ok", "raise"} :
              IF o = "ok"
              THEN /\ iframes' \in 0..MaxFrames
                   /\ iframe' = 1
                   /\ fpc' = "frame"
                   /\ fret' = fret
              ELSE /\ fpc' = "except"
                   /\ UNCHANGED <<iframes, iframe, fret>>
    /\ UNCHANGED <<selectors, timeout, selector, ctx, waited, clicks>>
    /\ UNCHANGED <<wfVars, pvVars, smsVars, mainVars, updVars, pureVars>>

\* for iframe in iframes: driver.switch_to.frame(iframe); after the last
\* frame: driver.switch_to.default_content().  A call that raises leaves for
\* the outer except clause.
FindFrame ==
    /\ fpc = "frame"
    /\ \E o \in {"ok", "raise"} :
         IF o = "ok"
         THEN /\ ctx' = IF iframe <= iframes THEN iframe ELSE 0
              /\ fpc' = "wait"
         ELSE /\ fpc' = "except"
              /\ ctx' = ctx
    /\ UNCHANGED <<selectors, timeout, selector, iframes, iframe, waited, clicks, fret>>
    /\ UNCHANGED <<wfVars, pvVars, smsVars, mainVars, updVars, pureVars>>

\* WebDriverWait(driver, timeout).until(element_to_be_clickable) and the
\* click.  "clicked": the element became clickable (the time this took is
\* not counted) and the click returned; "timeout": until raised
\* TimeoutException after timeout seconds; "error": until or the click
\* raised at once.  d1, d2: the calls of default_content() that follow
\* inside a frame (line 417 or 420, and line 420 after 417 raised).
FindWait ==
    /\ fpc = "wait"
    /\ \E w \in {"clicked", "timeout", "error"}, d1, d2 \in {"ok", "raise"} :
         /\ waited' = IF w = "timeout" THEN waited + timeout ELSE waited
         /\ clicks' = IF w = "clicked" THEN Append(clicks, <<selector, ctx>>) ELSE clicks
         /\ IF iframe <= iframes
            THEN CASE w = "clicked" /\ d1 = "ok" ->
                        /\ ctx' = 0
                        /\ FindReturn("True")
                        /\ UNCHANGED <<selector, iframe>>
                   [] (w = "clicked" /\ d1 = "raise" /\ d2 = "ok") \/ (w # "clicked" /\ d1 = "ok") ->
                        /\ ctx' = 0
                        /\ iframe' = iframe + 1
                        /\ fpc' = "frame"
                        /\ UNCHANGED <<selector, fret>>
                   [] OTHER ->
                        /\ fpc' = "except"
                        /\ UNCHANGED <<ctx, selector, iframe, fret>>
            ELSE IF w = "clicked"
                 THEN /\ FindReturn("True")
                      /\ UNCHANGED <<ctx, selector, iframe>>
                 ELSE /\ selector' = selector + 1
                      /\ fpc' = "selector"
                      /\ UNCHANGED <<ctx, iframe, fret>>
    /\ UNCHANGED <<selectors, timeout, iframes>>
    /\ UNCHANGED <<wfVars, pvVars, smsVars, mainVars, updVars, pureVars>>

\* Mutant of FindExcept: the outer except clause goes on to the next locator
\* without calling default_content().
FindExceptNoRestore ==
    /\ fpc = "except"
    /\ selector' = selector + 1
    /\ fpc' = "selector"
    /\ UNCHANGED <<ctx, selectors, timeout, iframes, iframe, waited, clicks, fret>>
    /\ UNCHANGED <<wfVars, pvVars, smsVars, mainVars, updVars, pureVars>>

\* The outer except clause: driver.switch_to.default_content(); continue.
\* When the call raises, the exception leaves the function.
FindExcept ==
    /\ fpc = "except"
    /\ \E o \in {"ok", "raise"} :
         IF o = "ok"
         THEN /\ ctx' = 0
              /\ selector' = selector + 1
              /\ fpc' = "selector"
         ELSE /\ fpc' = "raised"
              /\ UNCHANGED <<ctx, selector>>
    /\ UNCHANGED <<selectors, timeout, iframes, iframe, waited, clicks, fret>>
    /\ UNCHANGED <<wfVars, pvVars, smsVars, mainVars, updVars, pureVars>>

NextFind ==
    \/ FindSelector
    \/ FindFrame
    \/ FindWait
    \/ FindExcept

SpecFind == InitFind /\ [][NextFind]_vars

(***************************************************************************)
(* The two string computations of handle_phone_verification, each applied  *)
(* to one input.                                                           *)
(***************************************************************************)

\* Longest phone number and longest SMS body drawn.
MaxPhoneLen == 4
MaxSmsLen == 9

PhoneChars == {"+", "0", "1", "5"}
SmsChars == {"1", "2", " "}

Strings(chars, n) == UNION {[1..k -> chars] : k \in 1..n}

Number11 == <<"1", "5", "5", "5", "1", "2", "3", "4", "5", "6", "7">>
Number13 == <<"0", "0">> \o Number11

\* phone_number at line 268 is not falsy (line 261): a non-empty string.
InitFormat ==
    /\ wfIdle
    /\ InitMainOff
    /\ InitUpdOff
    /\ InitFindOff
    /\ ppc = "in"
    /\ arg \in Strings(PhoneChars, MaxPhoneLen) \cup {Number11, Number13}
    /\ result = <<>>

\* Lines 268-270; human_type(phone_input, formatted_number) types the result.
ApplyFormat ==
    /\ ppc = "in"
    /\ result' = FormatNumber(arg)
    /\ ppc' = "out"
    /\ UNCHANGED arg
    /\ UNCHANGED <<wfVars, pvVars, smsVars, mainVars, updVars, findVars>>

SpecFormat == InitFormat /\ [][ApplyFormat]_vars

\* sms_text at line 316 is not falsy (line 310): a non-empty string.
InitOtp ==
    /\ wfIdle
    /\ InitMainOff
    /\ InitUpdOff
    /\ InitFindOff
    /\ ppc = "in"
    /\ arg \in Strings(SmsChars, MaxSmsLen)
    /\ result = <<>>

\* Lines 316-321; human_type(otp_input, otp_code) types the result.
ApplyOtp ==
    /\ ppc = "in"
    /\ result' = ExtractOtp(arg)
    /\ ppc' = "out"
    /\ UNCHANGED arg
    /\ UNCHANGED <<wfVars, pvVars, smsVars, mainVars, updVars, findVars>>

SpecOtp == InitOtp /\ [][ApplyOtp]_vars

(***************************************************************************)
(* read_google_sheet's padding of one data row, and what main reads from   *)
(* the padded row.                                                         *)
(***************************************************************************)

\* Longest raw row drawn.
MaxCells == 6

\* Cell contents drawn for a raw row.
RowCells == { <<>>, <<"a">>, Pending }

\* A row as csv.reader yields it: any number of cells, none included.
InitRead ==
    /\ wfIdle
    /\ InitMainOff
    /\ InitUpdOff
    /\ InitFindOff
    /\ ppc = "in"
    /\ arg \in UNION {[1..k -> RowCells] : k \in 0..MaxCells}
    /\ result = <<>>

\* Lines 45-51, for one row.
ApplyRead ==
    /\ ppc = "in"
    /\ result' = ReadRow(arg)
    /\ ppc' = "out"
    /\ UNCHANGED arg
    /\ UNCHANGED <<wfVars, pvVars, smsVars, mainVars, updVars, findVars>>

SpecRead == InitRead /\ [][ApplyRead]_vars

\* status = row[4].strip().lower()
StatusRead(row) == Lower(Strip(row[5]))
\* The cell read_google_sheet appends as 'max_parallel_tabs' (row[6]).
WidthRead(row) == row[7]

(***************************************************************************)
(* Properties.                                                             *)
(***************************************************************************)
ContinueIdx == StepIndex("continue_button")
AllowIdx == StepIndex("allow_button")
UnderstandIdx == StepIndex("i_understand_button")
BypassIdx == StepIndex("phone_verification")
Statuses == {reports[k].status : k \in DOMAIN reports}
ReportsAt(i) == {reports[k].status : k \in {m \in DOMAIN reports : reports[m].at = i}}
Aborted == pc \in {"handler", "finally", "returned"} /\ ret # "True"

\* C1: once the Allow click has succeeded (control is past the Allow gate),
\* every status reported in this execution is exactly 'done'.
C1_OnlyDoneAfterGrant ==
    step > AllowIdx => \A st \in Statuses : IsDone(st)

\* C2: when the Continue or the Allow gate fails (element not found, or a
\* listed timeout class), then at return quit has been called, the function
\* returns False, and the statuses reported at that gate exist and all begin
\* with "issue: ".
C2_GateFailureTearsDown ==
    (pc = "returned" /\ failStep \in {ContinueIdx, AllowIdx}
        /\ failClass \in {"notfound", "listed"})
    => /\ quits >= 1
       /\ ret = "False"
       /\ ReportsAt(failStep) # {}
       /\ \A st \in ReportsAt(failStep) : IsIssue(st)

C2_Witness ==
    /\ pc = "returned"
    /\ failStep = ContinueIdx
    /\ failClass = "notfound"
    /\ quits = 2
    /\ ret = "False"

\* C3: on every exit path, if the browser session was created then quit has
\* been called at least once when the function returns, and a failure of
\* quit never escapes the function.
C3_QuitOnEveryExit ==
    /\ pc # "escaped"
    /\ (pc = "returned" /\ driver = "live") => (quits >= 1 /\ ret \in {"True", "False"})

C3_Witness ==
    /\ pc = "returned"
    /\ driver = "live"
    /\ failClass = "other"
    /\ quits = 1
    /\ quitFails = 1

\* C4: an execution that has returned has reported at least once, every
\* report is 'done' or begins with "issue: ", a fatal error (also a failure
\* to create the session) gives an "issue: " report and the value False, and
\* no exception escapes.
C4_AlwaysReports ==
    /\ pc # "escaped"
    /\ pc = "returned" =>
         /\ reports # <<>>
         /\ \A st \in Statuses : IsDone(st) \/ IsIssue(st)
         /\ failClass # "none" => (ret = "False" /\ \E st \in Statuses : IsIssue(st))

C4_Witness ==
    /\ pc = "returned"
    /\ driver = "none"
    /\ ret = "False"
    /\ Len(reports) = 1

\* C5: whatever the bypass returned, the workflow does not abort before the
\* Continue gate: an execution in which the bypass has returned reaches the
\* Continue gate before it returns.
C5_BypassThenContinueGate ==
    (pc = "returned" /\ pvResult # "none") => ContinueIdx \in reached

\* C6 as stated: an attempt of a mandatory retry step that fails on the 1st
\* or 2nd try, for whatever reason, is followed by another attempt of the
\* same step.
C6_RetryWhateverReason ==
    (Kind(step) = "retry" /\ last \in {"listed", "other"} /\ made < 3)
    => (pc = "run" /\ failStep = 0)

\* C6 amended: a mandatory retry step is attempted at most 3 times; a failure
\* with a listed class on the 1st or 2nd try is followed by another attempt
\* of the same step; after the 3rd such failure, and at once after a failure
\* with any other class, the workflow aborts, reports "issue: " before it
\* returns and enters no later step.
C6_RetryListedOnly ==
    Kind(step) = "retry" =>
        /\ made <= 3
        /\ (last = "listed" /\ made < 3) => (pc = "run" /\ failStep = 0 /\ made < MaxAttempts)
        /\ ((last = "listed" /\ made = 3) \/ last = "other") =>
             /\ Aborted
             /\ failStep = step
             /\ \A k \in reached : k <= step
             /\ pc = "returned" => (ret = "False" /\ \E st \in Statuses : IsIssue(st))
             /\ last = "listed" => (ReportsAt(step) # {} /\ \A st \in ReportsAt(step) : IsIssue(st))

C6_Witness ==
    /\ pc = "returned"
    /\ Kind(step) = "retry"
    /\ last = "listed"
    /\ made = 3
    /\ step = StepIndex("gmail_password_input")

\* C7: an execution that ends in a fatal failure after the browser session
\* exists has called save_screenshot before it returns.
C7_ScreenshotOnFatal ==
    (pc = "returned" /\ ret = "False" /\ driver = "live") => shots # <<>>

\* C8: get_smspool_sms never issues more than 6 re-polls, and when every
\* response was "status 200, no populated sms, time_left > 0" it returns
\* None after exactly 6 re-polls.
C8_PollingBound ==
    /\ polls <= 6
    /\ (pc = "bypass" /\ pv = "sms_done" /\ busyOnly)
         => (polls = 6 /\ sleeps = 6 /\ smsText = NoneVal)

C8_Witness ==
    /\ pc = "bypass"
    /\ pv = "sms_done"
    /\ busyOnly
    /\ polls = 6

Ceil(n, w) == (n + w - 1) \div w

\* C9: for a width w >= 1, batch k is the slice of rows (k-1)w+1 .. min(kw, n);
\* when main ends there are ceil(n/w) batches and every row is in exactly one.
C9_Batches ==
    width >= 1 =>
        /\ \A k \in 1..Len(batches) :
             batches[k] = <<(k - 1) * width + 1, Min(k * width, NRows)>>
        /\ mpc = "done" =>
             /\ Len(batches) = Ceil(NRows, width)
             /\ \A r \in 1..NRows :
                  Cardinality({k \in 1..Len(batches) :
                                 batches[k][1] <= r /\ r <= batches[k][2]}) = 1

C9_Witness ==
    /\ mpc = "done"
    /\ NRows = 3
    /\ width = 2
    /\ batches = << <<1, 2>>, <<3, 3>> >>

Active == {r \in 1..NRows : worker[r] \in {"running", "reporting", "reported"}}

\* C10: a worker of a later batch is started only when every worker started
\* for an earlier batch has finished, and at most MAX_PARALLEL_TABS
\* workflows run at a time.
C10_BatchBarrier ==
    /\ \A r1, r2 \in 1..NRows :
         (batchOf[r1] # 0 /\ batchOf[r1] < batchOf[r2]) => worker[r1] = "finished"
    /\ width >= 1 => Cardinality(Active) <= width

C10_Witness ==
    \E r1, r2 \in 1..NRows :
        /\ batchOf[r1] = 1
        /\ batchOf[r2] = 2
        /\ worker[r1] = "finished"
        /\ worker[r2] = "running"

\* The mandatory steps up to the provider password entry.
Mandatory == {k \in 1..(BypassIdx - 1) : Kind(k) \in {"once", "retry"}}
DoneReports == {k \in DOMAIN reports : IsDone(reports[k].status)}

\* C17: 'done' is reported at most once in an execution and only at the
\* Allow gate; when it has been reported, every mandatory step up to the
\* provider password entry, the Continue click and the Allow click have
\* succeeded in this execution, each once and in the order of the steps.
C17_DoneOnlyAtAllow ==
    /\ Cardinality(DoneReports) <= 1
    /\ \A k \in DoneReports :
         /\ reports[k].at = AllowIdx
         /\ \A m \in Mandatory \cup {ContinueIdx, AllowIdx} :
              \E i \in DOMAIN succeeded : succeeded[i] = m
         /\ \A i, j \in DOMAIN succeeded : i < j => succeeded[i] < succeeded[j]

C17_Witness ==
    /\ pc = "returned"
    /\ ret = "True"
    /\ reports = <<Rep(Done, AllowIdx)>>
    /\ Len(succeeded) = Cardinality(Mandatory) + 3

(***************************************************************************)
(* The coordinator and its workers.                                        *)
(***************************************************************************)
NonDone == {r \in 1..NRows : ~IsDoneRow(rows[r])}
MainEnded == mpc \in {"done", "crashed"}

\* C11: no workflow is ever launched for a row whose status cell, trimmed
\* and lower-cased, is done; no row gets two workflows; and when main has
\* ended exactly one workflow has been launched for every other row.
C11_LaunchOncePerPendingRow ==
    /\ \A r \in 1..NRows : IsDoneRow(rows[r]) => launches[r] = 0
    /\ \A r \in 1..NRows : launches[r] <= 1
    /\ MainEnded => \A r \in NonDone : launches[r] = 1

\* C12: no two workflows that are running at the same time were started
\* with the same target email.
C12_OneWorkflowPerEmail ==
    \A r1, r2 \in Active : r1 # r2 => args[r1][1] # args[r2][1]

\* C13: once a workflow has returned False, every workflow that was or will
\* be started still runs to completion, every row that is not done gets its
\* workflow, and main reaches its end.
C13_FailureIsolated ==
    (\E r \in DOMAIN outcome : outcome[r] = "False")
    ~> (mpc = "done" /\ \A q \in NonDone : launches[q] = 1 /\ worker[q] = "finished")

C13_Witness ==
    /\ mpc = "done"
    /\ NRows = 3
    /\ width = 2
    /\ outcome = <<"False", "True", "True">>

Reporting == {r \in 1..NRows : worker[r] = "reporting"}

\* C14: at no time are two worker threads inside update_status_in_sheet.
C14_ReportMutex ==
    Cardinality(Reporting) <= 1

Profiled == {r \in 1..NRows : profile[r] # <<>>}

\* C15: no two workflows of one run form the same profile directory name.
C15_DistinctProfiles ==
    \A r1, r2 \in Profiled : r1 # r2 => profile[r1] # profile[r2]

(***************************************************************************)
(* The status sink.                                                        *)
(***************************************************************************)
Failed(k) == posts[k] # "2xx"

\* C16: update_status_in_sheet makes at most 3 POST attempts; it returns
\* True at the first successful attempt and makes no further one; after a
\* failed attempt that is not the 3rd it waits and is about to try again;
\* after the 3rd failed attempt it returns False; it never raises.
C16_ThreeAttempts ==
    /\ Len(posts) <= 3
    /\ upc \in {"try", "returned"}
    /\ \A k \in 1..(Len(posts) - 1) : Failed(k)
    /\ upc = "try" =>
         /\ \A k \in 1..Len(posts) : Failed(k)
         /\ Len(posts) < 3
         /\ attempt = Len(posts)
         /\ delays = Len(posts)
         /\ uret = "none"
         /\ ENABLED UpdAttempt
    /\ upc = "returned" =>
         /\ posts # <<>>
         /\ uret = IF Failed(Len(posts)) THEN "False" ELSE "True"
         /\ uret = "False" => Len(posts) = 3

C16_Witness ==
    /\ upc = "returned"
    /\ uret = "False"
    /\ posts = <<"request_exception", "bad_status", "request_exception">>
    /\ delays = 2

(***************************************************************************)
(* The Continue gate's element search.                                     *)
(***************************************************************************)

\* C18: when find_and_click_element is called with the Continue gate's
\* timeout and returns False, it has spent at most 10 seconds waiting for
\* an element, whatever the number of locators and frames.
C18_ContinueBudget ==
    (timeout = ContinueTimeout /\ fpc = "returned" /\ fret = "False") => waited <= 10

(***************************************************************************)
(* The strings typed by the bypass.                                        *)
(***************************************************************************)

\* C19: a number that starts with "+" is typed unchanged; any other number
\* is typed as "+" followed by the number without its leading zeros, so
\* 15551234567 and 0015551234567 both give +15551234567.
C19_Normalized ==
    ppc = "out" =>
        /\ IF arg[1] = "+"
           THEN result = arg
           ELSE \E k \in 0..Len(arg) :
                  /\ \A i \in 1..k : arg[i] = "0"
                  /\ k < Len(arg) => arg[k + 1] # "0"
                  /\ result = <<"+">> \o SubSeq(arg, k + 1, Len(arg))
        /\ arg \in {Number11, Number13} => result = <<"+">> \o Number11

C19_Witness ==
    /\ ppc = "out"
    /\ arg = Number13
    /\ result = <<"+">> \o Number11

\* arg has n digits in a row from position i on.
IsRun(i, n) == i + n - 1 <= Len(arg) /\ \A j \in i..(i + n - 1) : arg[j] \in Digits

\* C20: when the SMS body has 4 digits in a row, the code is the first run
\* of at least 4 digits, cut after its 8th digit; otherwise the code is the
\* body without the spaces at its two ends.
C20_OtpCode ==
    ppc = "out" =>
        IF \E i \in 1..Len(arg) : IsRun(i, 4)
        THEN \E i \in 1..Len(arg), n \in 4..8 :
               /\ IsRun(i, n)
               /\ \A j \in 1..(i - 1) : ~IsRun(j, 4)
               /\ n = 8 \/ ~IsRun(i, n + 1)
               /\ result = SubSeq(arg, i, i + n - 1)
        ELSE \E a, b \in 0..Len(arg) :
               /\ \A j \in 1..a : arg[j] = " "
               /\ \A j \in (b + 1)..Len(arg) : arg[j] = " "
               /\ a < b => (arg[a + 1] # " " /\ arg[b] # " ")
               /\ result = SubSeq(arg, a + 1, b)

\* A run of 9 digits gives its first 8; two runs of 4 give the first one.
C20_Witness ==
    /\ ppc = "out"
    /\ \/ arg = <<"1", "2", "1", "2", "1", "2", "1", "2", "1">>
          /\ result = <<"1", "2", "1", "2", "1", "2", "1", "2">>
       \/ arg = <<"1", "1", "1", "1", " ", "2", "2", "2", "2">>
          /\ result = <<"1", "1", "1", "1">>

\* C21: a row with fewer than 5 cells is padded so that the status main
\* reads for it is "pending" and its max_parallel_tabs cell is empty.
C21_PaddedStatusPending ==
    (ppc = "out" /\ Len(arg) < 5) =>
        /\ StatusRead(result) = Pending
        /\ WidthRead(result) = <<>>

\* C22: whenever find_and_click_element returns, with True or with False,
\* the driver is in the top-level document.
C22_ReturnsAtTopLevel == fpc = "returned" => ctx = 0

\* True returned after a click inside a frame, the driver back at top level.
C22_Witness ==
    /\ fpc = "returned"
    /\ fret = "True"
    /\ clicks # <<>>
    /\ clicks[Len(clicks)][2] # 0
    /\ ctx = 0

\* C23: find_and_click_element clicks exactly one element before it
\* returns True, none before it returns False, and the one clicked is the
\* first match in the order locator by locator, frames before top level.
C23_ClicksExactlyOne ==
    fpc = "returned" =>
        /\ fret = "True" => Len(clicks) = 1
        /\ fret = "False" => clicks = <<>>

\* Inside handle_phone_verification or get_smspool_sms.
InBypass == pc \in {"bypass", "sms"}
\* The SMS-check endpoint has been requested.
SmsCalled == \E k \in 1..Len(calls) : calls[k][1] = "sms"

\* C24: with verification disabled or no phone input detected the bypass
\* returns False having made no request to the SMS provider; the purchase
\* endpoint is requested only after a phone input was detected, the
\* SMS-check endpoint only after a purchase that yielded a number.
C24_ProviderOnlyAfterDetection ==
    InBypass =>
        /\ (pv = "return" /\ (~enabled \/ ~phoneInput)) => (pvResult = "False" /\ calls = <<>>)
        /\ calls # <<>> => (phoneInput /\ calls[1] = <<"purchase">>)
        /\ SmsCalled => (numberData \notin {NoData, RaisingBody} /\ ~Falsy(phone))

\* Every phone selector timed out: False returned, no request made.
C24_Witness ==
    /\ pc = "bypass"
    /\ pv = "return"
    /\ enabled
    /\ ~phoneInput
    /\ sel = PhoneSelectors
    /\ shots = <<>>
    /\ pvResult = "False"
    /\ calls = <<>>

\* The value a purchase response carries under one of the keys, at top
\* level or else inside its nested result object.
Carried(d, keys) ==
    IF ~Falsy(FirstKey(d, keys)) THEN FirstKey(d, keys)
    ELSE IF "result" \in DOMAIN d /\ d["result"].isDict THEN FirstKey(d["result"].d, keys)
    ELSE NoneVal
CarriedPhone(d) == Carried(d, <<"number", "phone", "msisdn">>)
CarriedOrder(d) == Carried(d, <<"orderid", "order_id", "id">>)

\* C25: when the purchase response carries a phone number and an order id
\* under the documented keys, at top level or in the nested result, the
\* bypass holds both values, and once the number is typed and the Next
\* loop is over it has requested the SMS with that order id.
C25_BothValuesObtained ==
    (/\ InBypass
     /\ numberData \notin {NoData, RaisingBody}
     /\ ~Falsy(CarriedPhone(numberData))
     /\ ~Falsy(CarriedOrder(numberData))) =>
        /\ phone = CarriedPhone(numberData)
        /\ orderId = CarriedOrder(numberData)
        /\ (pv = "return" /\ typed # <<>>) =>
               \E k \in 1..Len(calls) : calls[k] = <<"sms", CarriedOrder(numberData)>>

\* get_smspool_number() has returned.
PurchaseDone == InBypass /\ calls # <<>> /\ pv # "purchase"
\* The purchase failed, or its response has an unexpected shape, or it
\* carries no phone number (key absent or value empty).
NoUsableNumber ==
    \/ numberData \in {NoData, RaisingBody}
    \/ Falsy(CarriedPhone(numberData))

\* C26: after a failed purchase or a response without usable number the
\* bypass has returned False, nothing was typed, no SMS was requested and
\* no exception left handle_phone_verification.
C26_NoNumberReturnsFalse ==
    (PurchaseDone /\ NoUsableNumber) =>
        /\ pc = "bypass"
        /\ pv = "return"
        /\ pvResult = "False"
        /\ typed = <<>>
        /\ ~SmsCalled

\* The response has the key number with an empty value.
C26_Witness ==
    /\ PurchaseDone
    /\ numberData = [number |-> <<>>, orderid |-> Ord1]
    /\ pv = "return"
    /\ pvResult = "False"
    /\ typed = <<>>

\* Requests sent to the SMS-check endpoint so far.
SmsRequests == Cardinality({k \in 1..Len(calls) : calls[k][1] = "sms"})
\* The latest response reports an expired budget.
Expired(r) == r.hasTl /\ r.tl <= 0
\* get_smspool_sms returns None with no further sleep or request.
FailsAtOnce ==
    /\ pv' = "sms_done"
    /\ smsText' = NoneVal
    /\ sleeps' = sleeps
    /\ polls' = polls
    /\ calls' = calls

\* C27: in get_smspool_sms a populated sms is returned at once (the polling
\* loop never holds one, and every sleep was followed by one request); a
\* response with time_left <= 0 makes the next step return failure with no
\* sleep and no request; so does the 6th re-poll without sms, and there is
\* never a 7th.
C27_PollingEnds ==
    /\ [](pc = "sms" /\ pv = "loop" => ~HasSms(res))
    /\ [](InBypass /\ pv = "sms_done" /\ res # NoRes /\ HasSms(res) => smsText = res.sms)
    /\ [](InBypass /\ SmsCalled => polls <= 6 /\ sleeps = polls /\ SmsRequests = polls + 1)
    /\ [][(pc = "sms" /\ pv = "loop" /\ (Expired(res) \/ polls = 6)) => FailsAtOnce]_vars

\* The budget expired after two re-polls: failure with two sleeps.
C27_Witness ==
    /\ pc = "bypass"
    /\ pv = "sms_done"
    /\ Expired(res)
    /\ polls = 2
    /\ sleeps = 2
    /\ smsText = NoneVal

\* The stages of the bypass in program order.
StageOrder == <<"detect", "purchase", "type_number", "next", "poll", "otp_find", "otp_type", "verify">>
StageNo(x) == CHOOSE k \in 1..Len(StageOrder) : StageOrder[k] = x

\* C28: the stages of one invocation are entered in program order, none
\* twice; a purchase is made only with a phone input detected, the number
\* is typed only after a purchase that returned one, the SMS is requested
\* only after the number was typed and only with a non-empty order id, the
\* OTP is typed only with a non-empty SMS and an OTP input located.
C28_StagesInOrder ==
    InBypass =>
        /\ \A i, j \in 1..Len(pvTrace) : i < j => StageNo(pvTrace[i]) < StageNo(pvTrace[j])
        /\ calls # <<>> => (phoneInput /\ calls[1] = <<"purchase">>)
        /\ \A k \in 2..Len(calls) : calls[k] = <<"sms", orderId>> /\ ~Falsy(orderId)
        /\ typed # <<>> =>
               (numberData \notin {NoData, RaisingBody} /\ ~Falsy(phone) /\ typed[1] = FormatNumber(phone))
        /\ SmsCalled => typed # <<>>
        /\ Len(typed) <= 2
        /\ Len(typed) = 2 =>
               (~Falsy(smsText) /\ otpInput /\ typed[2] = ExtractOtp(smsText))

\* A complete run of the bypass: all eight stages, number and OTP typed.
C28_Witness ==
    /\ pc = "bypass"
    /\ pv = "return"
    /\ pvResult = "True"
    /\ pvTrace = StageOrder
    /\ Len(typed) = 2
    /\ SmsCalled

\* C29: no optional step ("Use another account", "I understand",
\* "Connected", "Back") is ever the step at which control leaves the normal
\* path for the top-level handler.
C29_OptionalNeverFails ==
    failStep # 0 => Kind(failStep) \notin {"optional", "understand"}

\* C30: one execution of process_single_account reports at most one
\* status, so never two issue: statuses and never done together with
\* issue:.
C30_AtMostOneReport ==
    /\ Len(reports) <= 1
    /\ ~(\E i, j \in 1..Len(reports) : IsDone(reports[i].status) /\ IsIssue(reports[j].status))

\* C31: handle_phone_verification returns True only with the OTP typed,
\* the Next/Verify control clicked after it, and the Next control clicked
\* after the phone number.
C31_TrueOnlyAfterClicks ==
    (InBypass /\ pv = "return" /\ pvResult = "True") =>
        /\ Len(typed) = 2
        /\ nextClicked
        /\ verifyClicked

\* C32: whatever the max_parallel_tabs cell of the first data row holds,
\* and for an empty worklist, the width main uses is at least 1 and main
\* does not end in an exception before its batch loop has run.
C32_WidthAtLeastOne ==
    /\ mpc \notin {"off", "width"} => width >= 1
    /\ mpc # "crashed"

====
